---- MODULE Spec2Model ----
(***************************************************************************)
(* Elevation ruler: the Ruler prototype patches, the wrapped Ruler         *)
(* handlers (measure, clear, add/remove waypoint), the key handlers        *)
(* (incrementElevation / decrementElevation) and ProjectElevatedPoint.     *)
(*                                                                         *)
(* JavaScript numbers are modelled exactly: an integer, NaN or undefined   *)
(* is a record [t, v]; a projected coordinate p + q / sqrt(D) is a record  *)
(* [nan, p, q, D], so that Math.hypot of a diagonal needs no rounding.     *)
(***************************************************************************)
EXTENDS Integers, Sequences, FiniteSets, TLC

VARIABLES
    proto_elevation_increments,      \* Ruler.prototype.elevation_increments (one array, shared)
    own_elevation_increments,        \* per instance: [has, arr], the instance's own property if assigned
    destination_elevation_increment, \* per instance (own value, or the prototype's 0)
    waypoints,                       \* per instance: the host's this.waypoints
    destination,                     \* per instance: this.destination (<<>> until measure sets it)
    call,                            \* the invocation last dispatched, with its inputs
    ret,                             \* what that invocation returned or raised
    calls                            \* number of invocations dispatched so far

vars == <<proto_elevation_increments, own_elevation_increments,
          destination_elevation_increment, waypoints, destination, call, ret, calls>>

-----------------------------------------------------------------------------
(* Bounds and program constants *)

MaxCalls == 6
MaxCoord == 4
MaxHeight == 5

\* canvas.scene.data.gridDistance and canvas.scene.data.grid of the host's scene
gridDistance == 1
grid == 2
\* ray_elevated.distance < 10
MinSegment == 10

Rulers == {1, 2}
NoRuler == 0

Pt(x, y) == [x |-> x, y |-> y]
\* canvas positions the host hands in (already grid centres)
Points == {Pt(0, 0), Pt(3, 4)}

-----------------------------------------------------------------------------
(* JavaScript values *)

Num(n) == [t |-> "num", v |-> n]
NaN == [t |-> "nan", v |-> 0]
Undefined == [t |-> "undef", v |-> 0]

\* a * n for a JS value a and an integer n: undefined and NaN give NaN
Times(a, n) == IF a.t = "num" THEN Num(a.v * n) ELSE NaN

\* arr[i] with a 0-based index: undefined outside the array
At(arr, i) == IF i >= 0 /\ i < Len(arr) THEN Num(arr[i + 1]) ELSE Undefined

\* p + q / sqrt(D)
Coord(p, q, D) == [nan |-> FALSE, p |-> p, q |-> q, D |-> D]
NaNCoord == [nan |-> TRUE, p |-> 0, q |-> 0, D |-> 1]

\* sign of a * sqrt(D) + b, for integers a, b and D > 0
SurdSign(a, b, D) ==
    IF a = 0 /\ b = 0 THEN 0
    ELSE IF a >= 0 /\ b >= 0 THEN 1
    ELSE IF a <= 0 /\ b <= 0 THEN -1
    ELSE IF a > 0
         THEN (IF a * a * D > b * b THEN 1 ELSE IF a * a * D = b * b THEN 0 ELSE -1)
         ELSE (IF b * b > a * a * D THEN 1 ELSE IF b * b = a * a * D THEN 0 ELSE -1)

-----------------------------------------------------------------------------
(* ProjectElevatedPoint *)

\* Math.hypot(dy, dx) squared
Hypot2(dy, dx) == dy * dy + dx * dx

ProjectElevatedPoint(A, B, height) ==
    LET dx == B.x - A.x
        dy == B.y - A.y
        D  == Hypot2(dy, dx)
    IN  IF height.t # "num" \/ D = 0
        THEN \* NaN height, or (height * 0) / 0
             [x |-> NaNCoord, y |-> NaNCoord]
        ELSE [x |-> Coord(B.x, height.v * (B.y - A.y), D),
              y |-> Coord(B.y, height.v * (B.x - A.x), D)]

\* D * |AC|^2 = a + b * sqrt(D) for an integer point A and a projected point C
Dist2A(A, C) ==
    (C.x.p - A.x) * (C.x.p - A.x) * C.x.D + (C.y.p - A.y) * (C.y.p - A.y) * C.x.D
        + C.x.q * C.x.q + C.y.q * C.y.q
Dist2B(A, C) == 2 * ((C.x.p - A.x) * C.x.q + (C.y.p - A.y) * C.y.q)

\* new Ray(A, C).distance < limit; a comparison with NaN is false
RayShorter(A, C, limit) ==
    /\ ~C.x.nan
    /\ ~C.y.nan
    /\ SurdSign(Dist2B(A, C), Dist2A(A, C) - limit * limit * C.x.D, C.x.D) < 0

-----------------------------------------------------------------------------
(* Property lookup on a Ruler instance *)

\* this.elevation_increments: the instance's own array, else the prototype's
elevation_increments(r) ==
    IF own_elevation_increments[r].has
    THEN own_elevation_increments[r].arr
    ELSE proto_elevation_increments

\* what every instance observes before a call: the call's record keeps it
Observed == [r \in Rulers |->
                [arr  |-> elevation_increments(r),
                 dest |-> destination_elevation_increment[r]]]

Dispatch(op, r, active, p) ==
    /\ calls < MaxCalls
    /\ calls' = calls + 1
    /\ call' = [op |-> op, ruler |-> r, active |-> active, point |-> p,
                before |-> Observed]

Returned(path) ==
    [path |-> path, heights |-> <<>>, segments |-> <<>>, elevation_segments |-> <<>>]

\* this.elevation_increments.<push|pop>: the array object is changed in place,
\* whichever object holds it
MutateArray(r, arr) ==
    IF own_elevation_increments[r].has
    THEN /\ own_elevation_increments' =
                [own_elevation_increments EXCEPT ![r] = [has |-> TRUE, arr |-> arr]]
         /\ UNCHANGED proto_elevation_increments
    ELSE /\ proto_elevation_increments' = arr
         /\ UNCHANGED own_elevation_increments

Pop(arr) == IF Len(arr) = 0 THEN arr ELSE SubSeq(arr, 1, Len(arr) - 1)

-----------------------------------------------------------------------------
(* The host's wrapped Ruler methods, as far as they touch the waypoint list *)

WrappedClear(r) == waypoints' = [waypoints EXCEPT ![r] = <<>>]
WrappedAddWaypoint(r, p) == waypoints' = [waypoints EXCEPT ![r] = Append(@, p)]
WrappedRemoveWaypoint(r) == waypoints' = [waypoints EXCEPT ![r] = Pop(@)]

-----------------------------------------------------------------------------
(* Handlers *)

\* a clear that forgets the pending increment
elevationRulerClear_KeepsPending(r) ==
    /\ Dispatch("clear", r, FALSE, Pt(0, 0))
    /\ own_elevation_increments' =
            [own_elevation_increments EXCEPT ![r] = [has |-> TRUE, arr |-> <<>>]]
    /\ WrappedClear(r)
    /\ ret' = Returned("wrapped")
    /\ UNCHANGED <<proto_elevation_increments, destination,
                   destination_elevation_increment>>

elevationRulerClear(r) ==
    /\ Dispatch("clear", r, FALSE, Pt(0, 0))
    /\ own_elevation_increments' =
            [own_elevation_increments EXCEPT ![r] = [has |-> TRUE, arr |-> <<>>]]
    /\ destination_elevation_increment' =
            [destination_elevation_increment EXCEPT ![r] = 0]
    /\ WrappedClear(r)
    /\ ret' = Returned("wrapped")
    /\ UNCHANGED <<proto_elevation_increments, destination>>

elevationRulerAddWaypoint(r, p) ==
    /\ Dispatch("addWaypoint", r, FALSE, p)
    /\ MutateArray(r, Append(elevation_increments(r), destination_elevation_increment[r]))
    /\ destination_elevation_increment' =
            [destination_elevation_increment EXCEPT ![r] = 0]
    /\ WrappedAddWaypoint(r, p)
    /\ ret' = Returned("wrapped")
    /\ UNCHANGED destination

elevationRulerRemoveWaypoint(r) ==
    /\ Dispatch("removeWaypoint", r, FALSE, Pt(0, 0))
    /\ MutateArray(r, Pop(elevation_increments(r)))
    /\ destination_elevation_increment' =
            [destination_elevation_increment EXCEPT ![r] = 0]
    /\ WrappedRemoveWaypoint(r)
    /\ ret' = Returned("wrapped")
    /\ UNCHANGED destination

changeElevation(r, elevation_increment) ==
    destination_elevation_increment' =
        [destination_elevation_increment EXCEPT ![r] = @ + elevation_increment]

\* a key handler that checks only that a ruler exists
KeyHandler_NoActiveCheck(op, ruler, active, step) ==
    /\ Dispatch(op, ruler, active, Pt(0, 0))
    /\ IF ruler = NoRuler
       THEN UNCHANGED destination_elevation_increment
       ELSE changeElevation(ruler, step)
    /\ ret' = Returned("undefined")
    /\ UNCHANGED <<proto_elevation_increments, own_elevation_increments,
                   waypoints, destination>>

\* the body shared by incrementElevation and decrementElevation;
\* ruler is canvas.controls.ruler (NoRuler when there is none), active is ruler.active
KeyHandler(op, ruler, active, step) ==
    /\ Dispatch(op, ruler, active, Pt(0, 0))
    /\ IF ruler = NoRuler \/ ~active
       THEN UNCHANGED destination_elevation_increment
       ELSE changeElevation(ruler, step)
    /\ ret' = Returned("undefined")
    /\ UNCHANGED <<proto_elevation_increments, own_elevation_increments,
                   waypoints, destination>>

incrementElevation(ruler, active) == KeyHandler("incrementElevation", ruler, active, 1)

decrementElevation(ruler, active) == KeyHandler("decrementElevation", ruler, active, -1)

-----------------------------------------------------------------------------
(* elevationRulerMeasure *)

\* a == 0 for the accumulator, which is a boolean: true == 0 is false, false == 0 is true
LooseEqualsZero(a) == ~a

\* arr.reduce((a, b) => a == 0 && b == 0, true), folding from index i (1-based)
RECURSIVE Reduce(_, _, _)
Reduce(arr, i, a) ==
    IF i > Len(arr) THEN a
    ELSE Reduce(arr, i + 1, LooseEqualsZero(a) /\ arr[i] = 0)

\* the condition of the "if no elevation present" branch; an array is never falsy
NoElevationPresent(r) ==
    /\ destination_elevation_increment[r] = 0
    /\ Reduce(elevation_increments(r), 1, TRUE)

\* one pass of the loop over waypoints.slice(1).entries(), i 0-based
SegmentAt(r, pts, i) ==
    LET origin == pts[i + 1]
        dest == pts[i + 2]
        elevation == Times(Times(At(elevation_increments(r), i + 1), gridDistance), grid)
        elevated_dest == ProjectElevatedPoint(origin, dest, elevation)
    IN  [origin |-> origin, dest |-> dest, elevation |-> elevation,
         elevated_dest |-> elevated_dest,
         short |-> RayShorter(origin, elevated_dest, MinSegment)]

MeasureLoop(r, dest) ==
    LET pts == Append(waypoints[r], dest)
    IN  [k \in 1..(Len(pts) - 1) |-> SegmentAt(r, pts, k - 1)]

\* globals: whether the free identifiers of the elevation path (destination,
\* gridSpaces, elevation_increments) resolve in the host's global scope;
\* in a module they raise a ReferenceError otherwise, the first at the
\* assignment to destination, before anything is changed.
\* What follows the loop (measureDistances, labels, drawing) is the host's
\* rendering of the segments returned here.
elevationRulerMeasure(r, dest, globals) ==
    /\ Dispatch("measure", r, globals, dest)
    /\ IF NoElevationPresent(r)
       THEN /\ ret' = Returned("wrapped")
            /\ UNCHANGED destination
       ELSE IF ~globals
       THEN /\ ret' = Returned("ReferenceError")
            /\ UNCHANGED destination
       ELSE LET loop == MeasureLoop(r, dest)
                kept == SelectSeq(loop, LAMBDA s : ~s.short)
            IN  /\ destination' = [destination EXCEPT ![r] = <<dest>>]
                /\ ret' = [path |-> "elevation",
                           heights |-> [k \in 1..Len(loop) |-> loop[k].elevation],
                           segments |-> [k \in 1..Len(kept) |->
                                            [A |-> kept[k].origin, B |-> kept[k].dest]],
                           elevation_segments |-> [k \in 1..Len(kept) |->
                                            [A |-> kept[k].origin, B |-> kept[k].elevated_dest]]]
    /\ UNCHANGED <<proto_elevation_increments, own_elevation_increments,
                   destination_elevation_increment, waypoints>>

-----------------------------------------------------------------------------
(* The session: handlers dispatched by the host, one at a time *)

Init ==
    /\ proto_elevation_increments = <<>>
    /\ own_elevation_increments = [r \in Rulers |-> [has |-> FALSE, arr |-> <<>>]]
    /\ destination_elevation_increment = [r \in Rulers |-> 0]
    /\ waypoints = [r \in Rulers |-> <<>>]
    /\ destination = [r \in Rulers |-> <<>>]
    /\ call = [op |-> "none", ruler |-> NoRuler, active |-> FALSE, point |-> Pt(0, 0),
               before |-> [r \in Rulers |-> [arr |-> <<>>, dest |-> 0]]]
    /\ ret = Returned("none")
    /\ calls = 0

\* the handlers the host dispatches on the instances in R
Clear(R) == \E r \in R : elevationRulerClear(r)
AddWaypoint(R) == \E r \in R, p \in Points : elevationRulerAddWaypoint(r, p)
RemoveWaypoint(R) == \E r \in R : elevationRulerRemoveWaypoint(r)
Increment(R) ==
    \/ incrementElevation(NoRuler, FALSE)
    \/ \E r \in R, active \in BOOLEAN : incrementElevation(r, active)
Decrement(R) ==
    \/ decrementElevation(NoRuler, FALSE)
    \/ \E r \in R, active \in BOOLEAN : decrementElevation(r, active)
Measure(R) == \E r \in R, p \in Points, globals \in BOOLEAN :
                elevationRulerMeasure(r, p, globals)

\* one user's ruler (canvas.controls.ruler is instance 1)
Next ==
    \/ Clear({1})
    \/ AddWaypoint({1})
    \/ RemoveWaypoint({1})
    \/ Increment({1})
    \/ Decrement({1})
    \/ Measure({1})

Spec == Init /\ [][Next]_vars

\* two Ruler instances built from the one patched prototype
NextShared ==
    \/ Clear(Rulers)
    \/ AddWaypoint(Rulers)
    \/ RemoveWaypoint(Rulers)
    \/ Increment(Rulers)
    \/ Decrement(Rulers)
    \/ Measure(Rulers)

SharedSpec == Init /\ [][NextShared]_vars

-----------------------------------------------------------------------------
(* ProjectElevatedPoint on its own: the arguments are drawn, then it is applied *)

Coords == 0..MaxCoord
Heights == (0 - MaxHeight)..MaxHeight

InitProject ==
    /\ proto_elevation_increments = <<>>
    /\ own_elevation_increments = [r \in Rulers |-> [has |-> FALSE, arr |-> <<>>]]
    /\ destination_elevation_increment = [r \in Rulers |-> 0]
    /\ waypoints = [r \in Rulers |-> <<>>]
    /\ destination = [r \in Rulers |-> <<>>]
    /\ \E ax \in Coords, ay \in Coords, bx \in Coords, by \in Coords, h \in Heights :
            call = [op |-> "ProjectElevatedPoint",
                    A |-> Pt(ax, ay), B |-> Pt(bx, by), height |-> h]
    /\ ret = [path |-> "none", point |-> [x |-> NaNCoord, y |-> NaNCoord]]
    /\ calls = 0

Project ==
    /\ ret.path = "none"
    /\ ret' = [path |-> "returned",
               point |-> ProjectElevatedPoint(call.A, call.B, Num(call.height))]
    /\ calls' = calls + 1
    /\ UNCHANGED <<proto_elevation_increments, own_elevation_increments,
                   destination_elevation_increment, waypoints, destination, call>>

NextProject == Project

ProjectSpec == InitProject /\ [][NextProject]_vars

-----------------------------------------------------------------------------
(* Properties *)

AllZero(arr) == \A k \in 1..Len(arr) : arr[k] = 0
Factor == gridDistance * grid

\* C1: once a ruler has been cleared, elevation_increments is as long as the
\* waypoint list and, when non-empty, starts with 0.
C1_ParityAndOriginZero ==
    \A r \in Rulers :
        own_elevation_increments[r].has =>
            /\ Len(elevation_increments(r)) = Len(waypoints[r])
            /\ Len(elevation_increments(r)) > 0 => elevation_increments(r)[1] = 0

\* C2: a measure with pending increment 0 and every increment 0 (any length,
\* length 1 included) returns the host's wrapped measure.
C2_AllZeroUsesWrapped ==
    (/\ call.op = "measure"
     /\ destination_elevation_increment[call.ruler] = 0
     /\ AllZero(elevation_increments(call.ruler)))
        => ret.path = "wrapped"

\* C3: for A # B the projected point C has |AC|^2 = |AB|^2 + height^2.
C3_SlantDistance ==
    (ret.path = "returned" /\ call.A # call.B) =>
        LET C == ret.point
            D == Hypot2(call.B.y - call.A.y, call.B.x - call.A.x)
        IN  /\ ~C.x.nan
            /\ ~C.y.nan
            /\ SurdSign(Dist2B(call.A, C),
                        Dist2A(call.A, C) - D * (D + call.height * call.height), D) = 0

\* C4: in the elevation path the last segment's height is the pending increment
\* times the cell-size factor, and every earlier segment i uses
\* elevation_increments[i + 1], an index inside the array.
C4_PendingIsLastSegment ==
    (call.op = "measure" /\ ret.path = "elevation" /\ Len(ret.heights) > 0) =>
        LET n == Len(ret.heights)
            arr == elevation_increments(call.ruler)
        IN  /\ ret.heights[n] =
                    Num(destination_elevation_increment[call.ruler] * Factor)
            /\ \A k \in 1..(n - 1) :
                    /\ k < Len(arr)
                    /\ ret.heights[k] = Num(arr[k + 1] * Factor)

\* C5: with height 0 the projected point is exactly B, also when A = B.
C5_ZeroHeightIdentity ==
    (ret.path = "returned" /\ call.height = 0) =>
        /\ ret.point.x = Coord(call.B.x, 0, ret.point.x.D)
        /\ ret.point.y = Coord(call.B.y, 0, ret.point.y.D)

\* cross product of B - A and C - A, times sqrt(D), as a sign
CrossSign(A, B, C) ==
    SurdSign((B.x - A.x) * (C.y.p - A.y) - (B.y - A.y) * (C.x.p - A.x),
             (B.x - A.x) * C.y.q - (B.y - A.y) * C.x.q,
             C.x.D)

\* C6: for A # B the projected point is collinear with A and B exactly when
\* height is 0.
C6_OffLineUnlessFlat ==
    (ret.path = "returned" /\ call.A # call.B) =>
        /\ ~ret.point.x.nan
        /\ (CrossSign(call.A, call.B, ret.point) = 0) <=> (call.height = 0)

\* C7: right after elevationRulerClear the instance's elevation_increments is
\* empty and its destination_elevation_increment is 0.
C7_ClearResets ==
    call.op = "clear" =>
        /\ elevation_increments(call.ruler) = <<>>
        /\ destination_elevation_increment[call.ruler] = 0

C7_Witness ==
    /\ call.op = "clear"
    /\ call.before[call.ruler].arr # <<>>
    /\ call.before[call.ruler].dest # 0

\* C8: incrementElevation / decrementElevation return without changing anything
\* when there is no ruler or it is not active; on an active ruler they change
\* destination_elevation_increment by exactly +1 / -1 and nothing else.
C8_KeyHandlers ==
    call.op \in {"incrementElevation", "decrementElevation"} =>
        LET step == IF call.op = "incrementElevation" THEN 1 ELSE -1
        IN  /\ ret.path = "undefined"
            /\ IF call.ruler = NoRuler \/ ~call.active
               THEN Observed = call.before
               ELSE Observed = [call.before EXCEPT ![call.ruler].dest = @ + step]

C8_Witness ==
    /\ call.op = "decrementElevation"
    /\ call.ruler = 1
    /\ ~call.active
    /\ call.before[1].dest # 0
    /\ call.before[1].arr # <<>>

\* C9: a call on one instance changes nothing the other instance observes.
C9_InstancesIndependent ==
    (call.op # "none" /\ call.ruler # NoRuler) =>
        \A o \in Rulers \ {call.ruler} : Observed[o] = call.before[o]

\* C10: a measure with a non-zero pending increment or any non-zero increment
\* does not return the host's wrapped measure.
C10_ElevationNeverWrapped ==
    (/\ call.op = "measure"
     /\ \/ destination_elevation_increment[call.ruler] # 0
        \/ ~AllZero(elevation_increments(call.ruler)))
        => ret.path # "wrapped"

====
